---- MODULE Spec2Model ----
(***************************************************************************)
(* Model of compute_horde_sdk: the ComputeHordeJob poll/wait state machine *)
(* and the ComputeHordeClient calls it is built on.                        *)
(*                                                                         *)
(* Every coroutine the caller runs is a task; a task is suspended only at  *)
(* an await (the HTTP round trip of _make_request, or asyncio.sleep), so   *)
(* each action is the code that runs between two awaits.  Time is counted  *)
(* in whole seconds, per wait call, as the value of                        *)
(* time.time() - start_time (saturating above every timeout).              *)
(***************************************************************************)
EXTENDS Integers, Sequences, FiniteSets, TLC

\* ------------------------------------------------------------------ bounds
MaxTimeout == 3      \* largest timeout (seconds) passed to wait
MaxDelay == 1        \* extra seconds an await may take (round trip, late wake-up)
MaxInProgress == 2   \* in-progress reports of a remote that finishes the job
MaxPage == 1         \* jobs in one get_jobs page
MaxUrlParts == 7     \* parts a URL given to signature_payload is made of

\* --------------------------------------------------------- program constants
JOB_REFRESH_INTERVAL == 3

\* The coroutines of the caller, and the ComputeHordeJob instances it keeps
Tasks == {"main", "other"}
JobIds == {1, 2}
Uuids == {"u1", "u2"}
\* Python's None; a timeout of x seconds is Seconds(x)
None == [none |-> TRUE]
Seconds(x) == [secs |-> x]
NoJob == [uuid |-> "", status |-> "", result |-> None]

\* ComputeHordeJobStatus and its classification
InProgressStatuses == {"PENDING", "RUNNING"}
TerminalStatuses == {"COMPLETED", "FAILED", "REJECTED"}
ComputeHordeJobStatus == InProgressStatuses \cup TerminalStatuses

is_in_progress(status) == status \in InProgressStatuses

Stdouts == {"", "hi"}
ComputeHordeJobResult(stdout) == [stdout |-> stdout]

\* FacilitatorJobResponse: the job representation in a response body
\* (a job still in progress has produced no output)
FacilitatorJobResponse(u) ==
    {r \in [uuid : {u}, status : ComputeHordeJobStatus, stdout : Stdouts] :
        r.status \in InProgressStatuses => r.stdout = ""}

\* A body that does not match the schema
Malformed == [malformed |-> TRUE]

\* What the remote can answer to a request about job u: a status code and a body.
HttpErrorCodes == {404, 500}
HttpResponses(bodies) ==
    [code : {200} \cup HttpErrorCodes, body : bodies \cup {Malformed}]
NoResponse == [code |-> 0, body |-> Malformed]

\* ------------------------------------------------------------------- errors
NoError == [type |-> "NoError"]
ComputeHordeError(msg, code) ==
    [type |-> "ComputeHordeError", msg |-> msg, code |-> code]
ComputeHordeJobTimeoutError(uuid, timeout, status) ==
    [type |-> "ComputeHordeJobTimeoutError", uuid |-> uuid,
     timeout |-> timeout, status |-> status]
ValueError == [type |-> "ValueError"]
CancelledError == [type |-> "CancelledError"]
\* The exception self._keypair.sign raises when the private-key operation fails
KeypairSignError == [type |-> "KeypairSignError"]

\* --------------------------------------------------------- requests, signing

\* An optional argument that is given (None when it is not)
Some(x) == [some |-> x]
\* Python's `x or default` and dict.get(key, default)
or_default(x, default) == IF x = None THEN default ELSE x.some
get(data, key, default) == IF key \in DOMAIN data THEN data[key] ELSE default

\* The wallet hotkey of a client: a keypair whose sign works, and one whose
\* private-key operation fails
Keypairs == [ss58_address : {"signer"}, can_sign : BOOLEAN]
\* The clients of the caller: hotkey and compute_horde_validator_hotkey
Clients == [hotkey : Keypairs,
            compute_horde_validator_hotkey : {None, Some("validator")}]

\* Environment mappings, as Python keeps them: entries in insertion order
Envs == {<< <<"A", "1">>, <<"B", "2">> >>, << <<"B", "2">>, <<"A", "1">> >>}
\* Two mappings are equal when they have the same entries, in whatever order
Entries(mapping) == {mapping[i] : i \in DOMAIN mapping}

\* Mappings of mount paths to input / output volumes, in insertion order
InputVolumes == {<<>>, << <<"/volume/in", "InputVolume">> >>}
OutputVolumes == {<<>>}
\* InputVolume.to_compute_horde_volume(mount_path).model_dump()
to_compute_horde_volume(entry) ==
    << <<"volume_type", entry[2]>>, <<"relative_path", entry[1]>> >>
\* OutputVolume.to_compute_horde_output_upload(mount_path).model_dump()
to_compute_horde_output_upload(entry) ==
    << <<"output_upload_type", entry[2]>>, <<"relative_path", entry[1]>> >>

ExecutorClasses == {"spin_up-4min.gpu-24gb"}
DockerImages == {"user/image:tag"}

\* time.time_ns() at the moment of signing
Timestamps == {1, 258}

\* The data dict create_job builds from its arguments
create_job_data(client, executor_class, docker_image, env, input_volumes, output_volumes) ==
    LET base == [k \in {"target_validator_hotkey", "executor_class", "docker_image",
                        "args", "env", "use_gpu"} |->
                    CASE k = "target_validator_hotkey" -> client.compute_horde_validator_hotkey
                      [] k = "executor_class" -> executor_class
                      [] k = "docker_image" -> docker_image
                      [] k = "args" -> ""
                      [] k = "env" -> or_default(env, <<>>)
                      [] k = "use_gpu" -> TRUE]
        volumes == IF input_volumes # None
                   THEN "volumes" :> [i \in DOMAIN input_volumes.some |->
                                         to_compute_horde_volume(input_volumes.some[i])]
                   ELSE <<>>
        uploads == IF output_volumes # None
                   THEN "uploads" :> [i \in DOMAIN output_volumes.some |->
                                         to_compute_horde_output_upload(output_volumes.some[i])]
                   ELSE <<>>
    IN base @@ volumes @@ uploads

\* Mutant of from_facilitator_sdk_json: raw_script is read from the routing hint
from_facilitator_sdk_json_routed(data) ==
    [executor_class |-> get(data, "executor_class", None),
     docker_image |-> get(data, "docker_image", ""),
     raw_script |-> get(data, "target_validator_hotkey", ""),
     args |-> get(data, "args", ""),
     env |-> get(data, "env", None),
     use_gpu |-> get(data, "use_gpu", None),
     volumes |-> get(data, "volumes", <<>>),
     uploads |-> get(data, "uploads", <<>>)]

\* SignedFields.from_facilitator_sdk_json (every str(...) is of a string)
from_facilitator_sdk_json(data) ==
    [executor_class |-> get(data, "executor_class", None),
     docker_image |-> get(data, "docker_image", ""),
     raw_script |-> get(data, "raw_script", ""),
     args |-> get(data, "args", ""),
     env |-> get(data, "env", None),
     use_gpu |-> get(data, "use_gpu", None),
     volumes |-> get(data, "volumes", <<>>),
     uploads |-> get(data, "uploads", <<>>)]

\* SignedFields.model_dump_json: the JSON text, the members in declaration order
\* and every mapping in its insertion order
model_dump_json(signed_fields) ==
    [type |-> "str",
     value |-> << <<"executor_class", signed_fields.executor_class>>,
                  <<"docker_image", signed_fields.docker_image>>,
                  <<"raw_script", signed_fields.raw_script>>,
                  <<"args", signed_fields.args>>,
                  <<"env", signed_fields.env>>,
                  <<"use_gpu", signed_fields.use_gpu>>,
                  <<"volumes", signed_fields.volumes>>,
                  <<"uploads", signed_fields.uploads>> >>]

\* int.to_bytes(length, "big")
RECURSIVE to_bytes(_, _)
to_bytes(n, length) ==
    IF length = 0 THEN <<>> ELSE Append(to_bytes(n \div 256, length - 1), n % 256)

\* str(n) of a non-negative integer: its decimal digits
RECURSIVE str(_)
str(n) == IF n < 10 THEN <<n>> ELSE Append(str(n \div 10), n % 10)

\* str.encode("utf-8") and base64.b64encode(...).decode("utf-8")
encode(text) == [utf8 |-> text]
b64encode(bytes) == [b64 |-> bytes]

\* The order of the keys that json.dumps(sort_keys=True) sorts by
KeyRank == [k \in {"A", "B", "action", "json"} |->
               CASE k = "A" -> 1 [] k = "B" -> 2 [] k = "action" -> 3 [] k = "json" -> 4]

RECURSIVE sorted_by_key(_)
sorted_by_key(entries) ==
    IF entries = <<>> THEN <<>>
    ELSE LET i == CHOOSE k \in DOMAIN entries :
                     \A m \in DOMAIN entries : KeyRank[entries[k][1]] <= KeyRank[entries[m][1]]
         IN <<entries[i]>> \o
            sorted_by_key(SubSeq(entries, 1, i - 1) \o SubSeq(entries, i + 1, Len(entries)))

\* json.dumps(payload, sort_keys=True): a str becomes one JSON string literal
\* (there are no keys to sort), a dict an object with its keys sorted
json_dumps_sort_keys(payload) ==
    IF payload.type = "str" THEN [string_literal |-> payload.value]
    ELSE [object |-> sorted_by_key(payload.value)]

\* hash_message_signature: blake2b over the 8 timestamp bytes, then the payload
hash_message_signature(payload, signature) ==
    LET payload_bytes == IF payload.type = "bytes" THEN payload.value
                         ELSE encode(json_dumps_sort_keys(payload))
    IN [blake2b |-> <<to_bytes(signature.timestamp_ns, 8), payload_bytes>>]

\* b"", the signature bytes of a Signature under construction
EmptyBytes == [bytes |-> <<>>]

\* BittensorWalletSigner._sign: the keypair signs, or its operation fails
_sign(keypair, payload_hash) ==
    IF keypair.can_sign
    THEN [ok |-> TRUE, value |-> [signed_by |-> keypair.ss58_address, over |-> payload_hash]]
    ELSE [ok |-> FALSE, err |-> KeypairSignError]

\* Mutant of sign: the provisional Signature is returned as it was constructed
sign_provisional(keypair, payload, time_ns) ==
    [ok |-> TRUE,
     value |-> [signature_type |-> "bittensor", signatory |-> keypair.ss58_address,
                timestamp_ns |-> time_ns, signature |-> EmptyBytes]]

\* Signer.sign with the clock reading time_ns
sign(keypair, payload, time_ns) ==
    LET signature == [signature_type |-> "bittensor",
                      signatory |-> keypair.ss58_address,
                      timestamp_ns |-> time_ns,
                      signature |-> EmptyBytes]
        payload_hash == hash_message_signature(payload, signature)
        signed == _sign(keypair, payload_hash)
    IN IF ~signed.ok THEN signed
       ELSE [ok |-> TRUE, value |-> [signature EXCEPT !.signature = signed.value]]

SignatureHeaderNames ==
    {"X-CH-Signature-Type", "X-CH-Signatory", "X-CH-Timestamp-NS", "X-CH-Signature"}

\* Mutant of signature_to_headers: the signature header is left out
signature_to_headers_unsigned(signature) ==
    [h \in SignatureHeaderNames \ {"X-CH-Signature"} |->
        CASE h = "X-CH-Signature-Type" -> signature.signature_type
          [] h = "X-CH-Signatory" -> signature.signatory
          [] h = "X-CH-Timestamp-NS" -> str(signature.timestamp_ns)]

\* signature_to_headers, with the default prefix
signature_to_headers(signature) ==
    [h \in SignatureHeaderNames |->
        CASE h = "X-CH-Signature-Type" -> signature.signature_type
          [] h = "X-CH-Signatory" -> signature.signatory
          [] h = "X-CH-Timestamp-NS" -> str(signature.timestamp_ns)
          [] h = "X-CH-Signature" -> b64encode(signature.signature)]

\* ComputeHordeClient._get_signature_headers
_get_signature_headers(client, data, time_ns) ==
    LET signed_fields == from_facilitator_sdk_json(data)
        signature == sign(client.hotkey, model_dump_json(signed_fields), time_ns)
    IN IF ~signature.ok THEN signature
       ELSE [ok |-> TRUE, value |-> signature_to_headers(signature.value)]

\* The headers httpx.AsyncClient adds to every request of the client
ClientHeaders == [h \in {"Authorization"} |-> "Token"]
NoHeaders == [h \in {} |-> ""]

\* self._client.build_request in _make_request
build_request(method, url, json, params, headers) ==
    [method |-> method, url |-> url, json |-> json, params |-> params,
     headers |-> headers @@ ClientHeaders]

\* No request has been built
NoRequest ==
    [method |-> "", url |-> <<>>, json |-> None, params |-> None, headers |-> NoHeaders]

\* Mutant of get_job_request: the path names one fixed job
get_job_request_fixed(job_uuid) ==
    build_request("GET", <<"/jobs/", "u1">>, None, None, NoHeaders)

\* The requests of get_job, get_jobs and _submit_job_feedback
get_job_request(job_uuid) ==
    build_request("GET", <<"/jobs/", job_uuid>>, None, None, NoHeaders)
get_jobs_request(page, page_size) ==
    build_request("GET", <<"/jobs/">>, None,
                  Some([page |-> page, page_size |-> page_size]), NoHeaders)

\* result_correctness arguments, in tenths: -0.1, 0.0, 1.0, 1.5
ResultCorrectness == {-1, 0, 10, 15}
ExpectedDurations == {None, Some(1)}

\* ComputeHordeClient._submit_job_feedback up to its await
_submit_job_feedback(job_uuid, result_correctness, expected_duration) ==
    LET data == "result_correctness" :> result_correctness
        with_duration == IF expected_duration # None
                         THEN data @@ ("expected_duration" :> expected_duration.some)
                         ELSE data
    IN build_request("PUT", <<"/jobs/", job_uuid, "/feedback/">>,
                     Some(with_duration), None, NoHeaders)

\* ComputeHordeClient.create_job from the data dict to its await: the signed POST
\* request, or the error of the signer
create_job_request(client, data, time_ns) ==
    LET signature_headers == _get_signature_headers(client, data, time_ns)
    IN IF ~signature_headers.ok THEN signature_headers
       ELSE [ok |-> TRUE,
             value |-> build_request("POST", <<"/job-docker/">>, Some(data), None,
                                     signature_headers.value)]

\* The characters of the URLs given to signature_payload; a URL is a sequence of
\* characters, put together from at most MaxUrlParts parts
WordChars == {"h"}
Chars == WordChars \cup {":", "/"}
UrlParts == {<<"h">>, <<":", "/", "/">>, <<"/">>, <<":">>}

RECURSIVE Urls(_)
Urls(n) ==
    IF n = 0 THEN {<<>>}
    ELSE LET shorter == Urls(n - 1)
         IN shorter \cup {u \o part : u \in shorter, part \in UrlParts}

Methods == {"get", "GET", "Post"}
Jsons == {None, Some([uuid |-> "u1"])}

\* str.upper
upper(method) ==
    CASE method = "get" -> "GET" [] method = "GET" -> "GET" [] method = "Post" -> "POST"

\* The length of the longest run of characters of S in s from position i
RECURSIVE run_length(_, _, _)
run_length(s, i, S) ==
    IF i > Len(s) \/ s[i] \notin S THEN 0 ELSE 1 + run_length(s, i + 1, S)

\* Mutant of scheme_n_host_match: the host may be empty ([^/]* for [^/]+)
scheme_n_host_match_empty_host(url) ==
    LET scheme == run_length(url, 1, WordChars)
        host == run_length(url, scheme + 4, Chars \ {"/"})
    IN IF /\ scheme >= 1
          /\ Len(url) >= scheme + 3
          /\ SubSeq(url, scheme + 1, scheme + 3) = <<":", "/", "/">>
       THEN scheme + 3 + host ELSE 0

\* The end of the match of ^\w+://[^/]+ in url, 0 when there is none
scheme_n_host_match(url) ==
    LET scheme == run_length(url, 1, WordChars)
        host == run_length(url, scheme + 4, Chars \ {"/"})
    IN IF /\ scheme >= 1
          /\ Len(url) >= scheme + 3
          /\ SubSeq(url, scheme + 1, scheme + 3) = <<":", "/", "/">>
          /\ host >= 1
       THEN scheme + 3 + host ELSE 0

\* _REMOVE_URL_SCHEME_N_HOST_RE.sub("", url)
_REMOVE_URL_SCHEME_N_HOST_RE_sub(url) ==
    SubSeq(url, scheme_n_host_match(url) + 1, Len(url))

\* signature_payload
signature_payload(method, url, headers, json) ==
    LET reduced_url == _REMOVE_URL_SCHEME_N_HOST_RE_sub(url)
    IN [action |-> <<upper(method), " ">> \o reduced_url, json |-> json]

VARIABLES
    job,          \* job[j]: the ComputeHordeJob instance in slot j, or NoJob
    task,         \* task[t]: the coroutine t: its call, its position, its locals
    observed,     \* observed[j]: a refresh of job j has assigned it (history)
    facilitator   \* how the remote behaves (the environment)

vars == <<job, task, observed, facilitator>>

ElapsedCap == MaxTimeout + 1
Sat(x) == IF x > ElapsedCap THEN ElapsedCap ELSE x
Timeouts == {None} \cup {Seconds(x) : x \in {-1, 0, 1, MaxTimeout}}
Delays == 0..MaxDelay

IdleTask ==
    [op |-> "none", pc |-> "idle", job |-> 0, uuid |-> "", timeout |-> None,
     elapsed |-> 0, slept |-> 0, request |-> NoRequest, response |-> NoResponse,
     new_job |-> NoJob, payload |-> None, err |-> NoError]

\* ------------------------------------------------------------ pure functions

\* ComputeHordeJob._from_response
_from_response(response) ==
    [uuid |-> response.uuid,
     status |-> response.status,
     result |-> IF response.stdout # "" THEN ComputeHordeJobResult(response.stdout)
                ELSE None]

\* Mutant of _make_request: raise_for_status is left out
_make_request_unchecked(resp) == [ok |-> TRUE, text |-> resp.body]

\* ComputeHordeClient._make_request: raise_for_status, then the response text
_make_request(resp) ==
    IF resp.code >= 400
    THEN [ok |-> FALSE,
          err |-> ComputeHordeError("Compute Horde responded with status code", resp.code)]
    ELSE [ok |-> TRUE, text |-> resp.body]

\* FacilitatorJobResponse.model_validate_json and the except clause around it
model_validate_json(text) ==
    IF text = Malformed
    THEN [ok |-> FALSE,
          err |-> ComputeHordeError("Compute Horde returned malformed response", 0)]
    ELSE [ok |-> TRUE, value |-> text]

\* Mutant of awaiting_response: the response is handled although the coroutine
\* was cancelled
awaiting_response_or_cancelled(tk) == tk.pc \in {"request", "cancelled"}

\* A coroutine is resumed by a response only while it awaits one
awaiting_response(tk) == tk.pc = "request"

\* The part of get_job / create_job after the await: a Job, or the error raised.
parse_job(resp) ==
    LET r == _make_request(resp) IN
    IF ~r.ok THEN r
    ELSE LET v == model_validate_json(r.text) IN
         IF ~v.ok THEN v
         ELSE [ok |-> TRUE, job |-> _from_response(v.value)]

\* The part of get_jobs after the await: the list of Jobs, or the error raised.
parse_jobs(resp) ==
    LET r == _make_request(resp) IN
    IF ~r.ok THEN r
    ELSE LET v == model_validate_json(r.text) IN
         IF ~v.ok THEN v
         ELSE [ok |-> TRUE,
               jobs |-> [i \in 1..Len(v.value.results) |->
                            _from_response(v.value.results[i])]]

\* Mutant of timed_out: the operands of the subtraction are swapped
timed_out_swapped(timeout, elapsed) == timeout # None /\ 0 - elapsed > timeout.secs

\* Mutant of timed_out: no timeout counts as a timeout of 0 seconds
timed_out_without_timeout(timeout, elapsed) ==
    elapsed > (IF timeout = None THEN 0 ELSE timeout.secs)

\* The timeout test of wait
timed_out(timeout, elapsed) == timeout # None /\ elapsed > timeout.secs

\* Mutant of wait_loop: the timeout is tested before the status
wait_loop_timeout_first(tk, jb) ==
    IF timed_out(tk.timeout, tk.elapsed)
    THEN [tk EXCEPT !.pc = "raised",
                    !.err = ComputeHordeJobTimeoutError(jb.uuid, tk.timeout, jb.status)]
    ELSE IF ~is_in_progress(jb.status)
    THEN [tk EXCEPT !.pc = "returned"]
    ELSE [tk EXCEPT !.pc = "request", !.request = get_job_request(jb.uuid)]

\* One pass of wait's loop up to its next await, for task record tk on job jb:
\* return, raise the timeout error, or send the get_job request.
wait_loop(tk, jb) ==
    IF ~is_in_progress(jb.status)
    THEN [tk EXCEPT !.pc = "returned"]
    ELSE IF timed_out(tk.timeout, tk.elapsed)
    THEN [tk EXCEPT !.pc = "raised",
                    !.err = ComputeHordeJobTimeoutError(jb.uuid, tk.timeout, jb.status)]
    ELSE [tk EXCEPT !.pc = "request", !.request = get_job_request(jb.uuid)]

\* Mutant of on_refresh_error: wait swallows the error and polls again after its sleep
on_refresh_error_retry(tk, err) == [tk EXCEPT !.pc = "sleep"]

\* Mutants of refreshed: only one of the two fields is assigned
refreshed_result_only(jb, new_job) == [jb EXCEPT !.result = new_job.result]
refreshed_status_only(jb, new_job) == [jb EXCEPT !.status = new_job.status]

\* Mutant of refreshed: a response without output leaves the earlier result in place
refreshed_keeping_result(jb, new_job) ==
    [jb EXCEPT !.status = new_job.status,
               !.result = IF new_job.result = None THEN @ ELSE new_job.result]

\* An exception leaves the call: the coroutine ends with it
raised(tk, err) ==
    [tk EXCEPT !.pc = IF err = CancelledError THEN "cancelled" ELSE "raised", !.err = err]

\* get_job / create_job return the Job built from the response
returned_job(tk, new_job) == [tk EXCEPT !.pc = "returned", !.new_job = new_job]

\* get_job raised inside refresh_from_facilitator: nothing catches the error, in
\* refresh_from_facilitator or in wait
on_refresh_error(tk, err) == raised(tk, err)

\* refresh_from_facilitator has assigned the job: a refresh call returns, and wait
\* goes on to its sleep
after_refresh(tk, new_job) ==
    [tk EXCEPT !.new_job = new_job, !.pc = IF tk.op = "wait" THEN "sleep" ELSE "returned"]

\* refresh_from_facilitator after get_job returned new_job
refreshed(jb, new_job) ==
    [jb EXCEPT !.status = new_job.status, !.result = new_job.result]

\* The caller keeps a returned Job in a free slot, or drops it when it keeps NJobs.
Keep(jobs, new_job) ==
    IF \E j \in JobIds : jobs[j] = NoJob
    THEN LET j == CHOOSE k \in JobIds :
                     jobs[k] = NoJob /\ \A m \in JobIds : jobs[m] = NoJob => k <= m
         IN [jobs EXCEPT ![j] = new_job]
    ELSE jobs

RECURSIVE KeepAll(_, _)
KeepAll(jobs, new_jobs) ==
    IF new_jobs = <<>> THEN jobs
    ELSE KeepAll(Keep(jobs, Head(new_jobs)), Tail(new_jobs))

\* ------------------------------------------------------------ the remote

\* The remote's behaviour: it may answer anything (Arbitrary); or every request
\* succeeds and the job stays in progress for ever (Stuck), or is reported in
\* progress at most `left` more times and then as `final` (Finishing).
NoFinal == [status |-> "", stdout |-> ""]
Arbitrary == [mode |-> "arbitrary", left |-> 0, final |-> NoFinal]
Stuck == [mode |-> "stuck", left |-> 0, final |-> NoFinal]
Finishing(left, final) == [mode |-> "finishing", left |-> left, final |-> final]

\* The job representations the remote may report for uuid u in its current mode.
RemoteReports(u) ==
    CASE facilitator.mode = "arbitrary" -> FacilitatorJobResponse(u)
      [] facilitator.mode = "stuck" ->
            {r \in FacilitatorJobResponse(u) : r.status \in InProgressStatuses}
      [] facilitator.mode = "finishing" ->
            {r \in FacilitatorJobResponse(u) :
                \/ facilitator.left > 0 /\ r.status \in InProgressStatuses
                \/ r.status = facilitator.final.status
                     /\ r.stdout = facilitator.final.stdout}

\* The answers to GET /jobs/{u}
GetJobResponses(u) ==
    IF facilitator.mode = "arbitrary"
    THEN HttpResponses(FacilitatorJobResponse(u))
    ELSE [code : {200}, body : RemoteReports(u)]   \* every request succeeds

\* The answers to POST /job-docker/: the remote names the new job itself
JobResponses ==
    IF facilitator.mode = "arbitrary"
    THEN HttpResponses(UNION {FacilitatorJobResponse(u) : u \in Uuids})
    ELSE [code : {200}, body : UNION {RemoteReports(u) : u \in Uuids}]

\* FacilitatorJobsResponse: one page of job representations
RECURSIVE SeqsUpTo(_, _)
SeqsUpTo(S, n) ==
    IF n = 0 THEN {<<>>}
    ELSE LET shorter == SeqsUpTo(S, n - 1)
         IN shorter \cup {Append(q, x) : q \in shorter, x \in S}

\* The answers to GET /jobs/
JobsResponses ==
    IF facilitator.mode = "arbitrary"
    THEN HttpResponses([results :
             SeqsUpTo(UNION {FacilitatorJobResponse(u) : u \in Uuids}, MaxPage)])
    ELSE [code : {200},
          body : [results : SeqsUpTo(UNION {RemoteReports(u) : u \in Uuids}, MaxPage)]]

\* The answers to PUT /jobs/{id}/feedback/: the body is not read
FeedbackResponses ==
    IF facilitator.mode = "arbitrary" THEN HttpResponses({})
    ELSE [code : {200}, body : {Malformed}]

\* The remote after it answered with resp
Answered(resp) ==
    IF facilitator.mode = "finishing" /\ resp.body # Malformed
    THEN IF resp.body.status \in InProgressStatuses
         THEN [facilitator EXCEPT !.left = @ - 1]
         ELSE [facilitator EXCEPT !.left = 0]
    ELSE facilitator

\* ------------------------------------------------------------------ actions

\* ComputeHordeJob.wait, from the call to its first await
WaitStart(t, j, timeout, d) ==
    /\ task[t].pc = "idle"
    /\ job[j] # NoJob
    /\ task' = [task EXCEPT ![t] =
           wait_loop([IdleTask EXCEPT !.op = "wait", !.job = j,
                                      !.timeout = timeout, !.elapsed = d],
                     job[j])]
    /\ UNCHANGED <<job, observed, facilitator>>

\* ComputeHordeJob.refresh_from_facilitator called by the caller itself
RefreshStart(t, j) ==
    /\ task[t].pc = "idle"
    /\ job[j] # NoJob
    /\ task' = [task EXCEPT ![t] =
           [IdleTask EXCEPT !.op = "refresh", !.job = j, !.pc = "request",
                            !.request = get_job_request(job[j].uuid)]]
    /\ UNCHANGED <<job, observed, facilitator>>

\* The get_job response arrives at a wait or a refresh: refresh_from_facilitator
\* ends (the job is assigned, or the error propagates), and wait goes to sleep.
RecvRefresh(t) ==
    /\ awaiting_response(task[t])
    /\ task[t].op \in {"wait", "refresh"}
    /\ \E resp \in GetJobResponses(task[t].request.url[2]), d \in Delays :
          LET r == parse_job(resp)
              tk == [task[t] EXCEPT !.elapsed = Sat(@ + d), !.response = resp]
          IN /\ facilitator' = Answered(resp)
             /\ IF ~r.ok
                THEN /\ task' = [task EXCEPT ![t] = on_refresh_error(tk, r.err)]
                     /\ UNCHANGED <<job, observed>>
                ELSE /\ job' = [job EXCEPT ![tk.job] = refreshed(@, r.job)]
                     /\ observed' = [observed EXCEPT ![tk.job] = TRUE]
                     /\ task' = [task EXCEPT ![t] = after_refresh(tk, r.job)]

\* asyncio.sleep(JOB_REFRESH_INTERVAL) ends and wait's loop runs to its next await
SleepDone(t, d) ==
    /\ task[t].pc = "sleep"
    /\ task' = [task EXCEPT ![t] =
           wait_loop([task[t] EXCEPT
                         !.elapsed = Sat(@ + JOB_REFRESH_INTERVAL + d),
                         !.slept = Sat(@ + JOB_REFRESH_INTERVAL)],
                     job[task[t].job])]
    /\ UNCHANGED <<job, observed, facilitator>>

\* ComputeHordeClient.get_job called by the caller itself
GetJobStart(t, u) ==
    /\ task[t].pc = "idle"
    /\ task' = [task EXCEPT ![t] =
           [IdleTask EXCEPT !.op = "get_job", !.uuid = u, !.pc = "request",
                            !.request = get_job_request(u)]]
    /\ UNCHANGED <<job, observed, facilitator>>

\* The get_job response arrives at a get_job call of the caller
RecvGetJob(t) ==
    /\ awaiting_response(task[t])
    /\ task[t].op = "get_job"
    /\ \E resp \in GetJobResponses(task[t].request.url[2]) :
          LET r == parse_job(resp)
              tk == [task[t] EXCEPT !.response = resp]
          IN /\ facilitator' = Answered(resp)
             /\ IF ~r.ok
                THEN /\ task' = [task EXCEPT ![t] = raised(tk, r.err)]
                     /\ job' = job
                ELSE /\ task' = [task EXCEPT ![t] = returned_job(tk, r.job)]
                     /\ job' = Keep(job, r.job)
    /\ UNCHANGED observed

\* ComputeHordeClient.create_job, from the call to its await (or its ValueError)
CreateJobStart(t, run_cross_validation, client, env, input_volumes, output_volumes, time_ns) ==
    /\ task[t].pc = "idle"
    /\ \E executor_class \in ExecutorClasses, docker_image \in DockerImages :
          LET data == create_job_data(client, executor_class, docker_image, env,
                                      input_volumes, output_volumes)
              request == create_job_request(client, data, time_ns)
              tk == [IdleTask EXCEPT !.op = "create_job"]
          IN task' = [task EXCEPT ![t] =
                 IF run_cross_validation THEN raised(tk, ValueError)
                 ELSE IF ~request.ok THEN raised(tk, request.err)
                 ELSE [tk EXCEPT !.pc = "request", !.request = request.value]]
    /\ UNCHANGED <<job, observed, facilitator>>

\* The POST /job-docker/ response arrives at create_job
RecvCreateJob(t) ==
    /\ awaiting_response(task[t])
    /\ task[t].op = "create_job"
    /\ \E resp \in JobResponses :
          LET r == parse_job(resp)
              tk == [task[t] EXCEPT !.response = resp]
          IN IF ~r.ok
             THEN /\ task' = [task EXCEPT ![t] = raised(tk, r.err)]
                  /\ job' = job
             ELSE /\ task' = [task EXCEPT ![t] = returned_job(tk, r.job)]
                  /\ job' = Keep(job, r.job)
    /\ UNCHANGED <<observed, facilitator>>

\* ComputeHordeClient.get_jobs, from the call to its await
GetJobsStart(t) ==
    /\ task[t].pc = "idle"
    /\ task' = [task EXCEPT ![t] =
           [IdleTask EXCEPT !.op = "get_jobs", !.pc = "request",
                            !.request = get_jobs_request(1, 10)]]
    /\ UNCHANGED <<job, observed, facilitator>>

\* The GET /jobs/ response arrives at get_jobs
RecvGetJobs(t) ==
    /\ awaiting_response(task[t])
    /\ task[t].op = "get_jobs"
    /\ \E resp \in JobsResponses :
          LET r == parse_jobs(resp)
              tk == [task[t] EXCEPT !.response = resp]
          IN IF ~r.ok
             THEN /\ task' = [task EXCEPT ![t] = raised(tk, r.err)]
                  /\ job' = job
             ELSE /\ task' = [task EXCEPT ![t] = [tk EXCEPT !.pc = "returned"]]
                  /\ job' = KeepAll(job, r.jobs)
    /\ UNCHANGED <<observed, facilitator>>

\* ComputeHordeJob.submit_feedback, from the call to its await
SubmitFeedbackStart(t, j, result_correctness, expected_duration) ==
    /\ task[t].pc = "idle"
    /\ job[j] # NoJob
    /\ task' = [task EXCEPT ![t] =
           [IdleTask EXCEPT !.op = "submit_feedback", !.job = j, !.pc = "request",
                            !.request = _submit_job_feedback(job[j].uuid, result_correctness,
                                                             expected_duration)]]
    /\ UNCHANGED <<job, observed, facilitator>>

\* The PUT /jobs/{id}/feedback/ response arrives at _submit_job_feedback
RecvFeedback(t) ==
    /\ awaiting_response(task[t])
    /\ task[t].op = "submit_feedback"
    /\ \E resp \in FeedbackResponses :
          LET r == _make_request(resp)
              tk == [task[t] EXCEPT !.response = resp]
          IN task' = [task EXCEPT ![t] =
                 IF ~r.ok THEN raised(tk, r.err) ELSE [tk EXCEPT !.pc = "returned"]]
    /\ UNCHANGED <<job, observed, facilitator>>

\* signature_payload called for a request (method, url, headers, json)
SignaturePayloadCall(t) ==
    /\ task[t].pc = "idle"
    /\ \E method \in Methods, url \in Urls(MaxUrlParts), json \in Jsons :
          task' = [task EXCEPT ![t] =
              [IdleTask EXCEPT !.op = "signature_payload", !.pc = "returned",
                               !.request = [method |-> method, url |-> url, json |-> json,
                                            params |-> None, headers |-> NoHeaders],
                               !.payload = signature_payload(method, url, NoHeaders, json)]]
    /\ UNCHANGED <<job, observed, facilitator>>

\* The caller cancels a suspended coroutine: CancelledError is raised at its await.
Cancel(t) ==
    /\ task[t].pc \in {"request", "sleep"}
    /\ task' = [task EXCEPT ![t] = raised([@ EXCEPT !.pc = "cancelled"], CancelledError)]
    /\ UNCHANGED <<job, observed, facilitator>>

\* The caller has taken the outcome of a finished call; the coroutine is gone.
Finish(t) ==
    /\ task[t].pc \in {"returned", "raised", "cancelled"}
    /\ task' = [task EXCEPT ![t] = IdleTask]
    /\ UNCHANGED <<job, observed, facilitator>>

\* ----------------------------------------------------------- specifications

\* The calls of one caller, one after another, against a remote that may answer
\* anything.
Init ==
    /\ job = [j \in JobIds |-> NoJob]
    /\ task = [t \in Tasks |-> IdleTask]
    /\ observed = [j \in JobIds |-> FALSE]
    /\ facilitator = Arbitrary

Next ==
    \E t \in {"main"} :
        \/ \E j \in JobIds, timeout \in Timeouts, d \in Delays :
              WaitStart(t, j, timeout, d)
        \/ \E j \in JobIds : RefreshStart(t, j)
        \/ RecvRefresh(t)
        \/ \E d \in Delays : SleepDone(t, d)
        \/ \E u \in Uuids : GetJobStart(t, u)
        \/ RecvGetJob(t)
        \/ \E x \in BOOLEAN, client \in Clients, time_ns \in Timestamps :
              CreateJobStart(t, x, client, None, None, None, time_ns)
        \/ RecvCreateJob(t)
        \/ GetJobsStart(t)
        \/ RecvGetJobs(t)
        \/ \E j \in JobIds, result_correctness \in ResultCorrectness,
              expected_duration \in ExpectedDurations :
              SubmitFeedbackStart(t, j, result_correctness, expected_duration)
        \/ RecvFeedback(t)
        \/ Cancel(t)
        \/ Finish(t)

Spec == Init /\ [][Next]_vars

\* The calls of one caller with every kind of argument, one after another, against
\* a remote that answers every request and leaves the jobs in progress: the
\* requests the client builds and signs.
InitRequests ==
    /\ job = [j \in JobIds |-> NoJob]
    /\ task = [t \in Tasks |-> IdleTask]
    /\ observed = [j \in JobIds |-> FALSE]
    /\ facilitator = Stuck

NextRequests ==
    \E t \in {"main"} :
        \/ \E x \in BOOLEAN, client \in Clients, env \in {None} \cup {Some(e) : e \in Envs},
              input_volumes \in {None} \cup {Some(v) : v \in InputVolumes},
              output_volumes \in {None} \cup {Some(v) : v \in OutputVolumes},
              time_ns \in Timestamps :
              CreateJobStart(t, x, client, env, input_volumes, output_volumes, time_ns)
        \/ RecvCreateJob(t)
        \/ \E u \in Uuids : GetJobStart(t, u)
        \/ RecvGetJob(t)
        \/ GetJobsStart(t)
        \/ RecvGetJobs(t)
        \/ \E j \in JobIds : RefreshStart(t, j)
        \/ RecvRefresh(t)
        \/ \E j \in JobIds, result_correctness \in ResultCorrectness,
              expected_duration \in ExpectedDurations :
              SubmitFeedbackStart(t, j, result_correctness, expected_duration)
        \/ RecvFeedback(t)
        \/ Finish(t)

SpecRequests == InitRequests /\ [][NextRequests]_vars

\* Two coroutines of one caller, each with a Job of its own (both just created,
\* with different uuids), waiting on or refreshing them at the same time through
\* the one client, against a remote that may answer anything.
OwnJob(t) == IF t = "main" THEN 1 ELSE 2

InitConcurrent ==
    /\ job = [j \in JobIds |->
                 [uuid |-> IF j = 1 THEN "u1" ELSE "u2", status |-> "PENDING", result |-> None]]
    /\ task = [t \in Tasks |-> IdleTask]
    /\ observed = [j \in JobIds |-> FALSE]
    /\ facilitator = Arbitrary

NextConcurrent ==
    \E t \in Tasks :
        \/ \E timeout \in {None, Seconds(MaxTimeout)} : WaitStart(t, OwnJob(t), timeout, 0)
        \/ RefreshStart(t, OwnJob(t))
        \/ RecvRefresh(t)
        \/ SleepDone(t, 0)
        \/ Cancel(t)
        \/ Finish(t)

SpecConcurrent == InitConcurrent /\ [][NextConcurrent]_vars

\* Two coroutines of one caller waiting on or refreshing one and the same Job
\* (built from any job representation) at the same time, against a remote that
\* may answer anything.
InitSameJob ==
    /\ \E r \in FacilitatorJobResponse("u1") :
          job = [j \in JobIds |-> IF j = 1 THEN _from_response(r) ELSE NoJob]
    /\ task = [t \in Tasks |-> IdleTask]
    /\ observed = [j \in JobIds |-> FALSE]
    /\ facilitator = Arbitrary

NextSameJob ==
    \E t \in Tasks :
        \/ WaitStart(t, 1, None, 0)
        \/ RefreshStart(t, 1)
        \/ RecvRefresh(t)
        \/ SleepDone(t, 0)
        \/ Cancel(t)
        \/ Finish(t)

SpecSameJob == InitSameJob /\ [][NextSameJob]_vars

\* The calls of signature_payload, for every method, URL and body
NextPayload ==
    \E t \in {"main"} :
        \/ SignaturePayloadCall(t)
        \/ Finish(t)

SpecPayload == Init /\ [][NextPayload]_vars

\* A single wait against a remote that answers every request and either finishes
\* the job or leaves it in progress for ever.  The job the caller holds was built
\* from a report of that remote.  The event loop resumes a coroutine whose
\* response has arrived or whose sleep is over.
FinalReports == [status : TerminalStatuses, stdout : Stdouts]

InitLive ==
    /\ facilitator \in {Stuck} \cup
           {Finishing(k, f) : k \in 0..MaxInProgress, f \in FinalReports}
    /\ \E r \in RemoteReports("u1") :
          job = [j \in JobIds |-> IF j = 1 THEN _from_response(r) ELSE NoJob]
    /\ task = [t \in Tasks |-> IdleTask]
    /\ observed = [j \in JobIds |-> FALSE]

NextLive ==
    \E t \in {"main"} :
        \/ \E j \in JobIds, timeout \in Timeouts, d \in Delays :
              WaitStart(t, j, timeout, d)
        \/ RecvRefresh(t)
        \/ \E d \in Delays : SleepDone(t, d)

SpecLive ==
    /\ InitLive
    /\ [][NextLive]_vars
    /\ WF_vars(RecvRefresh("main"))
    /\ WF_vars(\E d \in Delays : SleepDone("main", d))

\* ------------------------------------------------------------------- claims

Main == task["main"]
MainJob == job[Main.job]

\* A request failed: a non-success status, or a body that is not of the schema
RequestFailed(resp) == resp.code >= 400 \/ resp.body = Malformed

\* The job's status and result are those of the last response the call received
JobIsOfResponse(tk) ==
    /\ ~RequestFailed(tk.response)
    /\ job[tk.job].status = tk.response.body.status
    /\ job[tk.job].result = _from_response(tk.response.body).result

\* C1: against a remote that answers every request and reports the job in progress
\* finitely often and then terminal, a wait eventually returns without error, the
\* job then has the terminal status and the result of one and the same response
\* (that of the remote's final report); with a timeout it may end with the timeout
\* error instead, but only when the elapsed time did exceed the timeout, and never
\* with timeout None.
WaitReturnsOnceRemoteFinishes ==
    (Main.op = "wait" /\ facilitator.mode = "finishing")
        ~> \/ /\ Main.pc = "returned"
              /\ Main.err = NoError
              /\ ~is_in_progress(MainJob.status)
              /\ Main.new_job # NoJob =>
                    /\ JobIsOfResponse(Main)
                    /\ MainJob.status = facilitator.final.status
                    /\ Main.response.body.stdout = facilitator.final.stdout
           \/ /\ Main.timeout # None
              /\ Main.pc = "raised"
              /\ Main.err.type = "ComputeHordeJobTimeoutError"
              /\ Main.elapsed > Main.timeout.secs

WaitReturnedAfterPolling ==
    /\ facilitator.mode = "finishing"
    /\ Main.op = "wait" /\ Main.pc = "returned" /\ Main.timeout = None
    /\ Main.new_job # NoJob
    /\ MainJob.status = "COMPLETED"
    /\ MainJob.result = ComputeHordeJobResult("hi")

\* C2: against a remote that leaves the job in progress for ever, a wait with a
\* timeout eventually fails with ComputeHordeJobTimeoutError, which names the job's
\* uuid and its last observed status, and the job still has the in-progress status
\* the remote last reported.
WaitTimesOutWhenRemoteIsStuck ==
    (Main.op = "wait" /\ Main.timeout # None /\ facilitator.mode = "stuck")
        ~> /\ Main.pc = "raised"
           /\ Main.err.type = "ComputeHordeJobTimeoutError"
           /\ Main.err.uuid = MainJob.uuid
           /\ Main.err.status = MainJob.status
           /\ Main.err.timeout = Main.timeout
           /\ is_in_progress(MainJob.status)
           /\ Main.new_job # NoJob => JobIsOfResponse(Main)

WaitTimedOutAfterPolling ==
    /\ facilitator.mode = "stuck"
    /\ Main.op = "wait" /\ Main.pc = "raised"
    /\ Main.err.type = "ComputeHordeJobTimeoutError"
    /\ Main.new_job # NoJob
    /\ MainJob.status = "RUNNING"

\* C3: a wait never sleeps after its own refresh has observed a terminal status.
WaitNeverSleepsOnceTerminal ==
    \A t \in Tasks :
        (task[t].op = "wait" /\ task[t].pc = "sleep")
            => is_in_progress(task[t].new_job.status)

\* C4: for a job the remote keeps PENDING, a wait with timeout T > 0 that ends
\* with the timeout error has not slept longer than a small multiple (twice) of T.
WaitTimeoutBoundedByTimeout ==
    \A t \in Tasks :
        (/\ task[t].op = "wait" /\ task[t].pc = "raised"
         /\ task[t].err.type = "ComputeHordeJobTimeoutError"
         /\ task[t].err.status = "PENDING"
         /\ task[t].new_job.status = "PENDING"
         /\ task[t].timeout.secs > 0)
            => task[t].slept <= 2 * task[t].timeout.secs

\* C5: once a refresh has assigned a terminal status to a Job, a later refresh of
\* that Job whose response reports a different status raises an error and leaves
\* the Job's status and result as they were.
TerminalNeverOverwritten ==
    [][\A t \in Tasks, j \in JobIds :
          (/\ observed[j] /\ job[j].status \in TerminalStatuses
           /\ task[t].op \in {"wait", "refresh"} /\ task[t].job = j
           /\ task[t].pc = "request"
           /\ task'[t].pc \notin {"request", "cancelled"}
           /\ ~RequestFailed(task'[t].response)
           /\ task'[t].response.body.status # job[j].status)
              => (task'[t].pc = "raised" /\ job'[j] = job[j])]_vars

\* C6: a cancelled wait is inert: the cancellation itself leaves every Job as it
\* is, and afterwards the coroutine takes no step (no assignment, no request)
\* until the caller disposes of it.
CancelledWaitIsInert ==
    [][\A t \in Tasks :
          /\ (task[t].op = "wait" /\ task[t].pc # "cancelled"
                  /\ task'[t].pc = "cancelled")
                => /\ task[t].pc \in {"request", "sleep"}
                   /\ job' = job
                   /\ task'[t].response = task[t].response
                   /\ task'[t].new_job = task[t].new_job
          /\ (task[t].op = "wait" /\ task[t].pc = "cancelled")
                => /\ task'[t] \in {task[t], IdleTask}
                   /\ task'[t] # task[t] => job' = job]_vars

WaitCancelledWhileAsleep ==
    \E t \in Tasks :
        /\ task[t].op = "wait" /\ task[t].pc = "cancelled"
        /\ task[t].new_job # NoJob
        /\ observed[task[t].job]

\* C7: a step changes the status or result of an existing Job only when a refresh
\* of that Job (by refresh_from_facilitator, alone or inside wait) receives a
\* successful get_job response for the Job's uuid, and then both become those of
\* that response; every other step (create_job, get_job, get_jobs,
\* submit_feedback, and failed refreshes) leaves every existing Job as it is.
JobChangedOnlyByItsRefresh ==
    [][\A j \in JobIds :
          (job[j] # NoJob /\ job'[j] # job[j])
              => \E t \in Tasks :
                    /\ task[t].op \in {"wait", "refresh"}
                    /\ task[t].job = j
                    /\ task[t].pc = "request"
                    /\ task'[t].pc \in {"sleep", "returned"}
                    /\ ~RequestFailed(task'[t].response)
                    /\ task'[t].response.body.uuid = job[j].uuid
                    /\ job'[j] =
                          [uuid |-> job[j].uuid,
                           status |-> task'[t].response.body.status,
                           result |-> _from_response(task'[t].response.body).result]]_vars

GetJobLeftExistingJobAlone ==
    \E t \in Tasks, j \in JobIds :
        /\ task[t].op = "get_job" /\ task[t].pc = "returned"
        /\ observed[j]
        /\ task[t].new_job.uuid = job[j].uuid
        /\ task[t].new_job.status # job[j].status

\* C8: when the get_job request of a wait's refresh fails, the wait ends at once
\* with the ComputeHordeError, the Job is left as it was, and the ended wait takes
\* no further step (no retry, no sleep).
WaitRaisesRequestFailureAtOnce ==
    [][\A t \in Tasks :
          /\ (/\ task[t].op = "wait" /\ task[t].pc = "request"
              /\ task'[t].pc \notin {"request", "cancelled"}
              /\ RequestFailed(task'[t].response))
                => /\ task'[t].pc = "raised"
                   /\ task'[t].err.type = "ComputeHordeError"
                   /\ job' = job
          /\ (task[t].op = "wait" /\ task[t].pc = "raised")
                => task'[t] \in {task[t], IdleTask}]_vars

WaitFailedAfterARefresh ==
    \E t \in Tasks :
        /\ task[t].op = "wait" /\ task[t].pc = "raised"
        /\ task[t].err.type = "ComputeHordeError"
        /\ task[t].new_job # NoJob
        /\ task[t].slept > 0

IsNotFoundError(err) == err.type = "NotFoundError"

GetJobDistinguishesNotFound ==
    \A t \in Tasks :
        (task[t].op = "get_job" /\ task[t].pc = "raised" /\ task[t].response.code >= 400)
            => (IsNotFoundError(task[t].err) <=> task[t].response.code = 404)

\* --------------------------------------------------------- claims: requests

\* A call has built a request and handed it to the transport
HasSent(tk) == tk.request # NoRequest

\* C11: every feedback request that is sent carries a result_correctness within
\* [0.0, 1.0] (0..10 tenths): a submit_feedback with a value outside the range
\* fails before a request is built.
FeedbackRequestsAreInRange ==
    \A t \in Tasks :
        (task[t].op = "submit_feedback" /\ HasSent(task[t]))
            => /\ task[t].request.method = "PUT"
               /\ task[t].request.json.some["result_correctness"] \in 0..10

\* C12: every request of create_job is the POST /job-docker/ and carries the four
\* signature headers; no request of any other call carries one of them.
OnlyCreateJobIsSigned ==
    \A t \in Tasks :
        /\ (task[t].op = "create_job" /\ task[t].pc \in {"request", "returned"})
              => HasSent(task[t])
        /\ HasSent(task[t]) =>
              IF task[t].op = "create_job"
              THEN /\ task[t].request.method = "POST"
                   /\ task[t].request.url = <<"/job-docker/">>
                   /\ SignatureHeaderNames \subseteq DOMAIN task[t].request.headers
              ELSE /\ task[t].request.method \in {"GET", "PUT"}
                   /\ DOMAIN task[t].request.headers \cap SignatureHeaderNames = {}

SignedCreateJobAnswered ==
    \E t \in Tasks :
        /\ task[t].op = "create_job" /\ task[t].pc = "returned"
        /\ task[t].request.headers["X-CH-Signature-Type"] = "bittensor"
        /\ task[t].request.json.some["target_validator_hotkey"] # None

\* The inverses of the header encodings
RECURSIVE int(_)
int(digits) ==
    IF digits = <<>> THEN 0
    ELSE 10 * int(SubSeq(digits, 1, Len(digits) - 1)) + digits[Len(digits)]

RECURSIVE from_bytes(_)
from_bytes(bytes) ==
    IF bytes = <<>> THEN 0
    ELSE 256 * from_bytes(SubSeq(bytes, 1, Len(bytes) - 1)) + bytes[Len(bytes)]

b64decode(text) == text.b64

\* The signature bytes a request carries, and what they were computed over
SentSignature(request) == b64decode(request.headers["X-CH-Signature"])
HashedTimestamp(request) == SentSignature(request).over.blake2b[1]
HashedPayload(request) == SentSignature(request).over.blake2b[2]

\* C13: the signature a create_job request carries is never the empty signature
\* of the Signature under construction: it is the signatory's signature over the
\* hash of 8 big-endian bytes followed by the payload bytes, the 8 bytes being the
\* timestamp_ns of the Timestamp-NS header, and the payload bytes the encoded
\* serialisation of the SignedFields of the request body.
SentSignatureIsComplete ==
    \A t \in Tasks :
        (task[t].op = "create_job" /\ HasSent(task[t])) =>
            LET request == task[t].request IN
            /\ SentSignature(request) # EmptyBytes
            /\ SentSignature(request).signed_by = request.headers["X-CH-Signatory"]
            /\ Len(HashedTimestamp(request)) = 8
            /\ from_bytes(HashedTimestamp(request)) = int(request.headers["X-CH-Timestamp-NS"])
            /\ int(request.headers["X-CH-Timestamp-NS"]) \in Timestamps
            /\ HashedPayload(request) =
                  encode(json_dumps_sort_keys(model_dump_json(
                      from_facilitator_sdk_json(request.json.some))))

CompleteSignatureSent ==
    \E t \in Tasks :
        /\ task[t].op = "create_job" /\ task[t].pc = "returned"
        /\ task[t].request.headers["X-CH-Timestamp-NS"] = <<2, 5, 8>>
        /\ HashedTimestamp(task[t].request) = <<0, 0, 0, 0, 0, 0, 1, 2>>

\* The clients whose hotkey can sign
Signers == {c \in Clients : c.hotkey.can_sign}

\* The request create_job would send for the same arguments with client c
WithClient(data, c) ==
    [data EXCEPT !["target_validator_hotkey"] = c.compute_horde_validator_hotkey]

\* C14: the payload a create_job request signs does not depend on
\* target_validator_hotkey: the request for the same arguments with any other
\* validator hotkey signs the same payload bytes, and for the same timestamp_ns
\* the same digest.
UnsignedFieldsDoNotReachPayload ==
    \A t \in Tasks :
        (task[t].op = "create_job" /\ HasSent(task[t])) =>
            \A c \in Signers, time_ns \in Timestamps :
                LET data == task[t].request.json.some
                    other == create_job_request(c, WithClient(data, c), time_ns).value
                IN /\ HashedPayload(other) = HashedPayload(task[t].request)
                   /\ (HashedTimestamp(other) = HashedTimestamp(task[t].request))
                         => SentSignature(other).over = SentSignature(task[t].request).over

CreateJobSentWithoutValidator ==
    \E t \in Tasks :
        /\ task[t].op = "create_job" /\ task[t].pc = "request"
        /\ task[t].request.json.some["target_validator_hotkey"] = None
        /\ "volumes" \in DOMAIN task[t].request.json.some

\* C15: the payload a create_job request signs does not depend on the order of the
\* entries of env: the request for an env with the same entries in another order
\* signs the same payload bytes.
SignedPayloadIgnoresEntryOrder ==
    \A t \in Tasks :
        (task[t].op = "create_job" /\ HasSent(task[t])) =>
            \A c \in Signers, env \in Envs, time_ns \in Timestamps :
                LET data == task[t].request.json.some
                    other == create_job_request(c, [data EXCEPT !["env"] = env], time_ns).value
                IN Entries(env) = Entries(data["env"])
                      => HashedPayload(other) = HashedPayload(task[t].request)

\* C16: when the private-key operation fails, create_job raises SigningError,
\* having sent no request and returning no Job.
SignFailureRaisesSigningError ==
    \A t \in Tasks :
        (task[t].op = "create_job" /\ task[t].pc = "raised" /\ task[t].err # ValueError
            /\ task[t].response = NoResponse)
            => /\ task[t].err.type = "SigningError"
               /\ ~HasSent(task[t])
               /\ task[t].new_job = NoJob

\* p is one or more word characters, "://", and one or more characters other than "/"
IsSchemeNHost(p) ==
    \E w \in 1..Len(p) :
        /\ \A i \in 1..w : p[i] \in WordChars
        /\ Len(p) >= w + 4
        /\ SubSeq(p, w + 1, w + 3) = <<":", "/", "/">>
        /\ \A i \in (w + 4)..Len(p) : p[i] # "/"

\* The length of the longest scheme://host prefix of url, 0 when it has none
SchemeNHostPrefix(url) ==
    LET ends == {k \in 1..Len(url) : IsSchemeNHost(SubSeq(url, 1, k))}
    IN IF ends = {} THEN 0 ELSE CHOOSE k \in ends : \A m \in ends : m <= k

\* C17: the action signature_payload returns is the method in upper case, a space,
\* and the URL without its leading scheme://host prefix (the whole URL when it has
\* none), everything after the prefix as it was given; the json member is the body
\* it was given, or None.
SignaturePayloadStripsSchemeAndHost ==
    \A t \in Tasks :
        (task[t].op = "signature_payload" /\ task[t].pc = "returned") =>
            LET url == task[t].request.url
                action == task[t].payload.action
            IN /\ action[1] = (IF task[t].request.method = "Post" THEN "POST" ELSE "GET")
               /\ action[2] = " "
               /\ SubSeq(action, 3, Len(action)) =
                     SubSeq(url, SchemeNHostPrefix(url) + 1, Len(url))
               /\ task[t].payload.json = task[t].request.json
               /\ DOMAIN task[t].payload = {"action", "json"}

SecondSchemeLeftIntact ==
    \E t \in Tasks :
        /\ task[t].op = "signature_payload" /\ task[t].pc = "returned"
        /\ task[t].request.method = "get"
        /\ task[t].request.url = <<"h", ":", "/", "/", "h", "/", "h", ":", "/", "/", "h">>
        /\ task[t].payload.action = <<"GET", " ", "/", "h", ":", "/", "/", "h">>
        /\ task[t].payload.json = None

\* ------------------------------------------------------ claims: concurrency

\* C18: while two coroutines wait on (or refresh) different Jobs through one
\* client, a step of the coroutine on one Job leaves the other Job as it is, and a
\* Job's status changes only to the status of a response to a get_job request for
\* that Job's own uuid, its uuid staying as it is.
ConcurrentWaitsDoNotInterfere ==
    [][\A t \in Tasks, j \in JobIds :
          /\ (task'[t] # task[t] /\ task'[t].job # j /\ task[t].job # j)
                => job'[j] = job[j]
          /\ (task'[t] # task[t] /\ job'[j] # job[j])
                => /\ task[t].job = j
                   /\ task[t].pc = "request"
                   /\ task[t].request.url = <<"/jobs/", job[j].uuid>>
                   /\ ~RequestFailed(task'[t].response)
                   /\ task'[t].response.body.uuid = job[j].uuid
                   /\ job'[j].uuid = job[j].uuid
                   /\ job'[j].status = task'[t].response.body.status]_vars

BothWaitsRefreshedTheirJobs ==
    /\ task["main"].op = "wait" /\ task["main"].pc = "sleep"
    /\ task["other"].op = "wait" /\ task["other"].pc = "request"
    /\ task["other"].new_job # NoJob
    /\ task["main"].job # task["other"].job
    /\ job[1].status = "COMPLETED" /\ job[1].result # None
    /\ job[2].status = "RUNNING"

\* ------------------------------------------------------- claims: wait's ends

\* C19: a wait called on a Job whose status is terminal returns in its first step,
\* whatever the timeout: without error, without having built a request or slept,
\* leaving every Job as it is; and the returned wait does nothing more.
WaitOnTerminalJobReturnsAtOnce ==
    [][\A t \in Tasks :
          /\ (/\ task[t].pc = "idle" /\ task'[t].op = "wait"
              /\ ~is_in_progress(job[task'[t].job].status))
                => /\ task'[t].pc = "returned"
                   /\ task'[t].err = NoError
                   /\ ~HasSent(task'[t])
                   /\ task'[t].slept = 0
                   /\ job' = job
          /\ (task[t].op = "wait" /\ task[t].pc = "returned")
                => (task'[t] \in {task[t], IdleTask} /\ job' = job)]_vars

WaitOnTerminalJobPastItsTimeout ==
    \E t \in Tasks :
        /\ task[t].op = "wait" /\ task[t].pc = "returned"
        /\ task[t].timeout = Seconds(-1)
        /\ ~HasSent(task[t])
        /\ job[task[t].job].status = "FAILED"

\* C20: a wait ends with ComputeHordeJobTimeoutError only when it has a timeout,
\* the elapsed time exceeds it and the Job's status is in progress; it returns only
\* when the Job's status is terminal; and once its refresh has made the status
\* terminal it returns after its sleep, however late that is.
WaitEndsMatchTheStatus ==
    [][\A t \in Tasks :
          LET tk == task'[t] IN
          /\ (task[t].pc # "raised" /\ tk.op = "wait" /\ tk.pc = "raised"
                /\ tk.err.type = "ComputeHordeJobTimeoutError")
                => /\ tk.timeout # None
                   /\ tk.elapsed > tk.timeout.secs
                   /\ is_in_progress(job'[tk.job].status)
          /\ (task[t].pc # "returned" /\ tk.op = "wait" /\ tk.pc = "returned")
                => (~is_in_progress(job'[tk.job].status) /\ tk.err = NoError)
          /\ (/\ task[t].op = "wait" /\ task[t].pc = "sleep"
              /\ ~is_in_progress(job[task[t].job].status)
              /\ tk.pc \notin {"sleep", "cancelled"})
                => tk.pc = "returned"]_vars

WaitReturnedPastItsDeadline ==
    \E t \in Tasks :
        /\ task[t].op = "wait" /\ task[t].pc = "returned"
        /\ task[t].timeout = Seconds(0)
        /\ task[t].new_job.status \in TerminalStatuses
        /\ task[t].response.code = 200
        /\ task[t].slept > 0
        /\ task[t].elapsed > task[t].timeout.secs

\* The (status, result) pairs that one single job representation gives
SingleResponsePairs(u) ==
    {[status |-> r.status, result |-> _from_response(r).result] :
        r \in FacilitatorJobResponse(u)}

\* C21: while coroutines refresh one Job at the same time (and are cancelled), every
\* step that changes the Job's status or result sets both to those of the one
\* get_job response that step received; every other step, a cancellation or a
\* failed request among them, leaves both as they were.  So between any two steps
\* the pair is the constructed one or that of one single response.
StatusAndResultOfOneResponse ==
    [][\A j \in JobIds :
          (job[j] # NoJob /\ job'[j] # job[j]) =>
              /\ [status |-> job'[j].status, result |-> job'[j].result]
                    \in SingleResponsePairs(job[j].uuid)
              /\ \E t \in Tasks :
                    /\ task[t].job = j /\ task[t].pc = "request"
                    /\ task'[t].pc \in {"sleep", "returned"}
                    /\ \A o \in Tasks \ {t} : task'[o] = task[o]
                    /\ ~RequestFailed(task'[t].response)
                    /\ job'[j].status = task'[t].response.body.status
                    /\ job'[j].result = _from_response(task'[t].response.body).result]_vars

ResultDroppedByConcurrentRefresh ==
    /\ task["main"].op = "wait" /\ task["main"].pc = "sleep"
    /\ task["main"].new_job.status = "COMPLETED"
    /\ task["main"].new_job.result = ComputeHordeJobResult("hi")
    /\ task["other"].op = "refresh" /\ task["other"].pc = "returned"
    /\ task["other"].job = task["main"].job
    /\ job[1].status = "FAILED" /\ job[1].result = None
====
